---- MODULE Spec2Model ----
(***************************************************************************)
(* Commodity tracker: the ingestion pipeline of apps/market.               *)
(*                                                                         *)
(* State: the PriceData table, the MarketUpdate table (the update ledger), *)
(* each Commodity's last_updated, and the position and locals of every     *)
(* worker that runs MarketUpdateOrchestrationService.update_single_        *)
(* commodity.  The state after construction assumes the service objects    *)
(* exist; their constructors are not part of the operations below.         *)
(*                                                                         *)
(* Abstractions: a timestamp is 1..MaxTs (0 is None), a Decimal is named   *)
(* by its canonical value ("D10.5"), timezone.now() is a logical clock.    *)
(* Of a price point only the close and open fields are kept: high, low and *)
(* volume are handled by the code exactly as open is.                      *)
(***************************************************************************)
EXTENDS Integers, Sequences, FiniteSets, TLC

\* ---------------------------------------------------------------- bounds
MaxTs == 2
MaxLen == 2
MaxRuns == 2
MaxClock == 5

\* ---------------------------------------------------------------- domains
None == "None"

Commodities == {"X", "Y"}

Tasks == {1, 2}

Workers == {1, 2}

\* Commodity.data_source.name of each commodity
DataSourceName(c) == IF c = "X" THEN "Alpha Vantage" ELSE "FRED"

Lower(name) ==
    CASE name = "Alpha Vantage" -> "alpha vantage"
      [] name = "FRED" -> "fred"
      [] name = "Quandl" -> "quandl"
      [] OTHER -> name

Timestamps == 1..MaxTs

\* date strings of a payload: "d<k>" is the date of timestamp k
DateStrings == {"d1", "d2", "d3", "d4", "bad"}

\* value strings of a payload (None: the key is absent)
ValueStrings == {None, "", ".", "5.25", "10.5"}

OpenStrings == {None, "10.0", "n/a"}

\* keys a payload's series may be stored under
PayloadKeys == {"Time Series (Daily)", "observations"}

\* the exceptions raised below fetch_data_for_commodity's wrapper
FetchFailures == {"ConfigurationError", "APIKeyMissingError",
                  "RateLimitExceededError", "DataFetchError"}

\* ---------------------------------------------------------------- core/utils.py
\* a conversion that gives zero where to_decimal gives the default
to_decimal_or_zero(value) ==
    CASE value = "5.25" -> "D5.25"
      [] value = "10.5" -> "D10.5"
      [] value = "10.50" -> "D10.5"
      [] value = "10.0" -> "D10.0"
      [] OTHER -> "D0"

\* PriceConverter.to_decimal: None and blank give the default (None); a string
\* Decimal() rejects gives None; otherwise the Decimal.
to_decimal(value) ==
    CASE value = None -> None
      [] value = "" -> None
      [] value = "5.25" -> "D5.25"
      [] value = "10.5" -> "D10.5"
      [] value = "10.50" -> "D10.5"
      [] value = "10.0" -> "D10.0"
      [] OTHER -> None

\* DateTimeHelper.parse_date_string: 0 (None) when empty or not '%Y-%m-%d'
parse_date_string(date_str) ==
    CASE date_str = "d1" -> 1
      [] date_str = "d2" -> 2
      [] date_str = "d3" -> 3
      [] date_str = "d4" -> 4
      [] OTHER -> 0

\* ---------------------------------------------------------------- payloads
RECURSIVE SeqsUpTo(_, _)
SeqsUpTo(S, n) ==
    IF n = 0 THEN {<<>>}
    ELSE LET shorter == SeqsUpTo(S, n - 1)
         IN  shorter \cup {Append(s, x) : s \in {q \in shorter : Len(q) = n - 1}, x \in S}

Dates == {d \in DateStrings : parse_date_string(d) <= MaxTs}

\* one date-keyed entry (Alpha Vantage) or one observation (FRED): the date, the
\* string under the close key (FRED: 'value') and the string under the open key
AllEntries == [date : Dates, close : ValueStrings, open : OpenStrings]

\* the entries the concurrent workers are fed: a good value or the FRED sentinel
FewEntries == [date : Dates, close : {".", "5.25"}, open : {None}]

EmptyPayload == [key |-> None, entries |-> <<>>]

\* raw_data as the fetcher returns it: {} or one series under one key.  An
\* Alpha Vantage series is a JSON object keyed by date, so its dates are
\* distinct; FRED's observations are a list
PayloadsOver(entries) ==
    {EmptyPayload} \cup
    {p \in [key : PayloadKeys, entries : SeqsUpTo(entries, MaxLen)] :
        p.key = "observations" \/
        \A i, j \in DOMAIN p.entries : p.entries[i].date = p.entries[j].date => i = j}

\* the generator in process_alpha_vantage_data / _estimate_records_in_raw_data
IsTimeSeriesKey(k) == k \in {"Time Series (Daily)"}

\* ---------------------------------------------------------------- PriceDataProcessor
\* the item_data of one Alpha Vantage price point (None timestamp: skipped)
AlphaVantageItem(e) ==
    [timestamp |-> parse_date_string(e.date),
     close_price |-> to_decimal(e.close),
     open_price |-> to_decimal(e.open)]

RECURSIVE ParseAlphaVantage(_)
ParseAlphaVantage(entries) ==
    IF entries = <<>> THEN <<>>
    ELSE LET item == AlphaVantageItem(Head(entries))
             rest == ParseAlphaVantage(Tail(entries))
         IN  IF item.timestamp = 0 THEN rest
             ELSE IF item.close_price # None THEN <<item>> \o rest
             ELSE rest

\* a FRED loop that keeps every observation whose date parses
RECURSIVE ParseFredKeepingAll(_)
ParseFredKeepingAll(observations) ==
    IF observations = <<>> THEN <<>>
    ELSE LET obs == Head(observations)
             rest == ParseFredKeepingAll(Tail(observations))
         IN  IF parse_date_string(obs.date) = 0 THEN rest
             ELSE <<[timestamp |-> parse_date_string(obs.date),
                     close_price |-> to_decimal(obs.close),
                     open_price |-> None]>> \o rest

RECURSIVE ParseFred(_)
ParseFred(observations) ==
    IF observations = <<>> THEN <<>>
    ELSE LET obs == Head(observations)
             rest == ParseFred(Tail(observations))
         IN  IF obs.close = None \/ obs.close = "." THEN rest
             ELSE IF parse_date_string(obs.date) = 0 THEN rest
             ELSE IF to_decimal(obs.close) = None THEN rest
             ELSE <<[timestamp |-> parse_date_string(obs.date),
                     close_price |-> to_decimal(obs.close),
                     open_price |-> None]>> \o rest

\* rows of the PriceData table of one commodity
RowsOf(table, c) == {i \in DOMAIN table : table[i].commodity = c}

\* a pre-check that finds nothing
NoExistingTimestamps(table, c, tss) == {}

\* PriceData.objects.filter(commodity=c, timestamp__in=tss).values_list('timestamp')
ExistingTimestamps(table, c, tss) ==
    {table[i].timestamp : i \in {j \in RowsOf(table, c) : table[j].timestamp \in tss}}

RECURSIVE PrepareLoop(_, _, _)
PrepareLoop(c, items, existing) ==
    IF items = <<>> THEN <<>>
    ELSE LET item == Head(items)
             rest == PrepareLoop(c, Tail(items), existing)
         IN  IF item.timestamp = 0 THEN rest
             ELSE IF item.timestamp \in existing THEN rest
             ELSE IF item.close_price = None THEN rest
             ELSE <<[commodity |-> c, timestamp |-> item.timestamp,
                     close_price |-> item.close_price,
                     open_price |-> item.open_price]>> \o rest

\* PriceDataProcessor._prepare_price_data_entries
prepare_price_data_entries(table, c, parsed_items) ==
    LET timestamps_to_check ==
            {parsed_items[i].timestamp : i \in {j \in DOMAIN parsed_items :
                                                  parsed_items[j].timestamp # 0}}
    IN  IF timestamps_to_check = {} THEN <<>>
        ELSE PrepareLoop(c, parsed_items, ExistingTimestamps(table, c, timestamps_to_check))

\* a table without the unique constraint
NoUniqueConstraint(table, row) == TRUE

\* PriceData.Meta.unique_together = ['commodity', 'timestamp']
UniqueTogether(table, row) ==
    \A i \in DOMAIN table :
        ~(table[i].commodity = row.commodity /\ table[i].timestamp = row.timestamp)

\* PriceData.objects.bulk_create(rows, ignore_conflicts=True): a row that would
\* break the unique constraint is dropped, the others are inserted in order
RECURSIVE bulk_create(_, _)
bulk_create(table, rows) ==
    IF rows = <<>> THEN table
    ELSE IF UniqueTogether(table, Head(rows))
         THEN bulk_create(Append(table, Head(rows)), Tail(rows))
         ELSE bulk_create(table, Tail(rows))

\* an estimate that counts nothing, whatever the payload holds
estimate_nothing(raw_data, source_name) == 0

\* MarketUpdateOrchestrationService._estimate_records_in_raw_data
estimate_records_in_raw_data(raw_data, source_name) ==
    IF Lower(source_name) = "alpha vantage"
    THEN IF IsTimeSeriesKey(raw_data.key) THEN Len(raw_data.entries) ELSE 0
    ELSE IF Lower(source_name) = "fred"
    THEN IF raw_data.key = "observations" THEN Len(raw_data.entries) ELSE 0
    ELSE 0

\* the parsed_items_for_db of the processor method chosen by
\* _get_processor_method_for_source ("no processor" when it returns None)
ParsedItems(raw_data, source_name) ==
    IF Lower(source_name) = "alpha vantage"
    THEN IF IsTimeSeriesKey(raw_data.key) THEN ParseAlphaVantage(raw_data.entries) ELSE <<>>
    ELSE IF raw_data.key = "observations" THEN ParseFred(raw_data.entries) ELSE <<>>

HasProcessor(source_name) == Lower(source_name) \in {"alpha vantage", "fred"}

\* what bulk_create returns: the list of objects it was given, whether or not
\* the database ignored some of them
CreatedObjects(table, rows) == rows

\* ---------------------------------------------------------------- models
\* the methods class MarketUpdate defines
MarketUpdateMethods == {"mark_as_running", "mark_completed", "mark_failed"}

\* the class attributes of MarketUpdate that signals.py reads
MarketUpdateAttributes == {"STATUS_CHOICES"}

\* MarketUpdate.objects.create(data_source=..., commodity=c, status=status)
NewMarketUpdate(c, status) ==
    [commodity |-> c, status |-> status, records_fetched |-> 0,
     records_created |-> 0, records_updated |-> 0, error_message |-> None,
     started_at |-> 0, completed_at |-> 0]

\* MarketUpdate.mark_as_running
mark_as_running(log, clock) ==
    [log EXCEPT !.status = "RUNNING", !.started_at = clock]

\* MarketUpdate.mark_completed
mark_completed(log, clock, records_fetched, records_created, records_updated) ==
    [log EXCEPT !.status = "SUCCESS", !.completed_at = clock,
                !.records_fetched = records_fetched,
                !.records_created = records_created,
                !.records_updated = records_updated]

\* MarketUpdate.mark_failed
mark_failed(log, clock, error_message) ==
    [log EXCEPT !.status = "FAILED", !.completed_at = clock,
                !.error_message = error_message]

\* ---------------------------------------------------------------- state
VARIABLES
    signals_connected,  \* whether MarketConfig.ready() managed to import signals.py
    price_data,         \* the PriceData table, in insertion order
    last_updated,       \* Commodity.last_updated (0: NULL)
    market_update,      \* the MarketUpdate table, in insertion order
    now,                \* timezone.now()
    task,               \* the workers running update_single_commodity
    processor,          \* the workers running DataProcessor.process_data
    caller,             \* a caller of PriceDataProcessor's reconciliation
    service,            \* an UpdateService and its caller
    fetcher,            \* a CommodityDataFetcherOrchestrator and its caller
    client,             \* an AlphaVantageClient or FREDClient and its caller
    built               \* the service objects constructed so far

vars == <<signals_connected, price_data, last_updated, market_update, now, task,
          processor, caller, service, fetcher, client, built>>

TerminalStatuses == {"SUCCESS", "PARTIAL", "FAILED"}

IdleTask ==
    [pc |-> "idle", commodity |-> None, log |-> 0, num_fetched |-> 0,
     candidates |-> None, to_create |-> <<>>, records_created |-> 0,
     rows_added |-> 0, in_try |-> FALSE, caught |-> None, cause |-> None,
     status_arg |-> None, exc |-> None]

IdleProcessor == [pc |-> "idle", commodity |-> None, todo |-> <<>>, found |-> 0]

\* a thread that is not inside update_commodity.  own is the entry its call
\* created (0: none), e the exception its except clause caught
IdleCall == [pc |-> "idle", commodity |-> None, own |-> 0, e |-> None, exc |-> None]

\* no UpdateService constructed yet.  source is the kind of value the
\* constructor was given as data_source_name, market_update is
\* self.market_update (0: None); batch, processed and created record the
\* caller's view of one update_all_commodities call
NoService ==
    [pc |-> "none", source |-> None, market_update |-> 0, batch |-> <<>>,
     todo |-> <<>>, e |-> None, own |-> 0, processed |-> {}, created |-> {},
     successful_updates |-> <<>>, exc |-> None,
     calls |-> [t \in Tasks |-> IdleCall]]

\* a fetch orchestrator with an empty client cache.  clients is self._clients,
\* a set of [name, id] pairs (key and the client object stored under it), made
\* counts the client objects constructed so far, served records which object
\* served each source name; source, result, raised and cause record the last
\* call of fetch_data_for_commodity(commodity), with
\* commodity.data_source.name = source, as its caller saw it (cause: what was
\* raised below the wrapper)
IdleFetcher ==
    [pc |-> "idle", clients |-> {}, made |-> 0, served |-> {}, commodity |-> None,
     source |-> None, result |-> None, raised |-> None, cause |-> None]

\* a response body as the handlers of the provider clients read it.  error is
\* the Alpha Vantage key 'Error Message', note and information its keys 'Note'
\* and 'Information', error_code and error_message the FRED keys (None: the
\* key is absent; error_code 0: absent), payload: the body has data keys
NoBody ==
    [error |-> None, note |-> None, information |-> None, error_code |-> 0,
     error_message |-> None, payload |-> FALSE]

\* a provider client before a fetch.  body is what response.json() gave the
\* last fetch, returned and raised what the fetch method ended with
IdleClient ==
    [pc |-> "idle", provider |-> None, body |-> NoBody, returned |-> NoBody,
     raised |-> None]

\* no constructor has been called.  objects are the objects the constructors
\* returned, class and raised the last constructor call and what it raised
NothingBuilt == [objects |-> {}, class |-> None, raised |-> None]

IdleCaller ==
    [pc |-> "idle", commodity |-> None, source |-> None, raw_data |-> EmptyPayload,
     items |-> <<>>, before |-> <<>>, first |-> 0, second |-> 0]

Init ==
    /\ signals_connected \in BOOLEAN
    /\ price_data = <<>>
    /\ last_updated = [c \in Commodities |-> 0]
    /\ market_update = <<>>
    /\ now = 1
    /\ task = [t \in Tasks |-> IdleTask]
    /\ processor = [w \in Workers |-> IdleProcessor]
    /\ caller = IdleCaller
    /\ service = NoService
    /\ fetcher = IdleFetcher
    /\ client = IdleClient
    /\ built = NothingBuilt

\* str(e) of the exception the fetch orchestrator raises: it wraps whatever
\* was raised below it (fetch_data_for_commodity, the except clause)
\* (the DataProcessingError of _bulk_create_price_data has a message of its own)
WrappedMessage(cause) ==
    CASE cause = "ConfigurationError" -> "Failed to fetch data: No API client configured"
      [] cause = "APIKeyMissingError" -> "Failed to fetch data: API key not found"
      [] cause = "RateLimitExceededError" -> "Failed to fetch data: rate limit likely exceeded"
      [] cause = "DatabaseError" -> "Bulk creation of price data failed"
      [] OTHER -> "Failed to fetch data: HTTP error occurred"

\* the class of the exception fetch_data_for_commodity lets out
WrappedClass(cause) == "DataFetchError"

\* ---------------------------------------------------------------- update_single_commodity
\* MarketUpdate.objects.create(status='PENDING'): the row is inserted; with the
\* signal handlers connected market_update_post_save sets started_at, saves, and
\* the nested handler reads MarketUpdate.STATUS_COMPLETED, which raises
\* AttributeError out of create(), before the try block.  (log is the row this
\* call inserted; exc is the exception update_single_commodity ends with.)
CreateUpdateLog(t, c) ==
    /\ task[t].pc \in {"idle", "done"}
    /\ Len(market_update) < MaxRuns
    /\ IF signals_connected /\ "STATUS_COMPLETED" \notin MarketUpdateAttributes
       THEN /\ market_update' = Append(market_update,
                    [NewMarketUpdate(c, "PENDING") EXCEPT !.started_at = now])
            /\ now' = now + 1
            /\ task' = [task EXCEPT ![t] =
                    [IdleTask EXCEPT !.pc = "done", !.commodity = c,
                                     !.log = Len(market_update) + 1,
                                     !.exc = "AttributeError"]]
       ELSE /\ market_update' = Append(market_update, NewMarketUpdate(c, "PENDING"))
            /\ now' = now
            /\ task' = [task EXCEPT ![t] =
                    [IdleTask EXCEPT !.pc = "created", !.commodity = c,
                                     !.log = Len(market_update) + 1]]
    /\ UNCHANGED <<built, client, fetcher, service, signals_connected, price_data, last_updated, processor, caller>>

\* update_log.mark_as_running(task_id=task_id)
MarkAsRunning(t) ==
    /\ task[t].pc = "created"
    /\ market_update' = [market_update EXCEPT
            ![task[t].log] = mark_as_running(market_update[task[t].log], now)]
    /\ now' = now + 1
    /\ task' = [task EXCEPT ![t].pc = "running"]
    /\ UNCHANGED <<built, client, fetcher, service, signals_connected, price_data, last_updated, processor, caller>>

\* the call of mark_as_completed that the try block makes with `status`
InTry(tk, status) ==
    [tk EXCEPT !.pc = "completing", !.in_try = TRUE, !.status_arg = status]

\* the call of mark_as_completed that an except clause makes for exception e
InHandler(tk, class, cause) ==
    [tk EXCEPT !.pc = "completing", !.in_try = FALSE, !.caught = class,
               !.cause = cause, !.status_arg = "FAILED"]

\* fetch_data_for_commodity raises: every exception below it leaves as DataFetchError
FetchRaises(t, failures) ==
    /\ task[t].pc = "running"
    /\ \E cause \in failures :
          task' = [task EXCEPT ![t] = InHandler(task[t], WrappedClass(cause), cause)]
    /\ UNCHANGED <<built, client, fetcher, service, signals_connected, price_data, last_updated, market_update, now,
                   processor, caller>>

\* the payload has the top-level key the processor method of the source looks
\* for (process_alpha_vantage_data: a key containing "Time Series";
\* process_fred_data: "observations"); otherwise the method logs a warning
\* and returns 0
RecognisedShape(raw_data, source_name) ==
    IF Lower(source_name) = "alpha vantage" THEN IsTimeSeriesKey(raw_data.key)
    ELSE raw_data.key = "observations"

\* what the candidates of a run are to the table: "none" (no candidate parsed),
\* "known" (every candidate's timestamp is already stored) or "new"
Candidates(table, c, parsed) ==
    IF parsed = <<>> THEN "none"
    ELSE IF \A i \in DOMAIN parsed :
                parsed[i].timestamp \in {table[j].timestamp : j \in RowsOf(table, c)}
    THEN "known" ELSE "new"

\* fetch_data_for_commodity returns raw_data; the processor method parses it and
\* _prepare_price_data_entries reads the existing timestamps (one query)
FetchAndPrepare(t, payloads) ==
    /\ task[t].pc = "running"
    /\ \E raw_data \in payloads :
          LET c == task[t].commodity
              source == DataSourceName(c)
              num_fetched == estimate_records_in_raw_data(raw_data, source)
              parsed == ParsedItems(raw_data, source)
              rows == prepare_price_data_entries(price_data, c, parsed)
              tk == [task[t] EXCEPT
                        !.num_fetched = num_fetched,
                        !.candidates = IF RecognisedShape(raw_data, source)
                                       THEN Candidates(price_data, c, parsed)
                                       ELSE "unrecognised",
                        !.to_create = rows]
          IN  task' = [task EXCEPT ![t] =
                  IF raw_data = EmptyPayload
                  THEN InTry(task[t], "FAILED")
                  ELSE IF ~HasProcessor(source)
                  THEN InTry(tk, "FAILED")
                  ELSE IF rows = <<>>
                  THEN InTry(tk, "PARTIAL")
                  ELSE [tk EXCEPT !.pc = "prepared"]]
    /\ UNCHANGED <<built, client, fetcher, service, signals_connected, price_data, last_updated, market_update, now,
                   processor, caller>>

\* _bulk_create_price_data on a non-empty list, inside transaction.atomic
BulkCreatePriceData(t) ==
    /\ task[t].pc = "prepared"
    /\ \E db \in {"ok", "IntegrityError", "DatabaseError"} :
          LET rows == task[t].to_create
              table == bulk_create(price_data, rows)
              num_created == Len(CreatedObjects(price_data, rows))
          IN  CASE db = "ok" ->
                     /\ price_data' = table
                     /\ task' = [task EXCEPT ![t] =
                            InTry([task[t] EXCEPT
                                      !.records_created = num_created,
                                      !.rows_added = Len(table) - Len(price_data)],
                                  IF num_created > 0 THEN "SUCCESS" ELSE "PARTIAL")]
                [] db = "IntegrityError" ->
                     /\ price_data' = price_data
                     /\ task' = [task EXCEPT ![t] =
                            InTry(task[t], "PARTIAL")]
                [] db = "DatabaseError" ->
                     /\ price_data' = price_data
                     /\ task' = [task EXCEPT ![t] =
                            InHandler(task[t], "DataProcessingError", "DatabaseError")]
    /\ UNCHANGED <<built, client, fetcher, service, signals_connected, last_updated, market_update, now, processor, caller>>

\* update_log.mark_as_completed(status=..., ...): MarketUpdate defines no such
\* method, so the call raises AttributeError and writes nothing.  Raised in the
\* try block it is caught by `except Exception`, whose own call of
\* mark_as_completed raises again; raised in an except clause it propagates.
\* Either way update_single_commodity ends by raising AttributeError.
MarkAsCompleted(t) ==
    /\ task[t].pc = "completing"
    /\ "mark_as_completed" \notin MarketUpdateMethods
    /\ task' = [task EXCEPT ![t] =
            [task[t] EXCEPT !.pc = "done", !.exc = "AttributeError",
                            !.to_create = <<>>, !.in_try = FALSE,
                            !.caught = IF task[t].in_try THEN "AttributeError"
                                       ELSE task[t].caught]]
    /\ UNCHANGED <<built, client, fetcher, service, signals_connected, price_data, last_updated, market_update, now,
                   processor, caller>>

\* ---------------------------------------------------------------- reconciliation, called directly
\* the parsed items a caller may hand to _prepare_price_data_entries
ParsedItemSet ==
    [timestamp : 0..MaxTs, close_price : {None, "D5.25", "D10.5"}, open_price : {None}]

\* the rows a table may hold before the caller starts
PriorRows ==
    [commodity : Commodities, timestamp : Timestamps, close_price : {"D5.25"},
     open_price : {None}]

\* item_data.pop('timestamp'): an item that was materialised loses its timestamp,
\* so the caller's list is changed by the call
RECURSIVE PoppedItems(_, _)
PoppedItems(items, existing) ==
    IF items = <<>> THEN <<>>
    ELSE LET item == Head(items)
             rest == PoppedItems(Tail(items), existing)
         IN  IF item.timestamp # 0 /\ item.timestamp \notin existing
                /\ item.close_price # None
             THEN <<[item EXCEPT !.timestamp = 0]>> \o rest
             ELSE <<item>> \o rest

\* the caller's list after _prepare_price_data_entries(commodity, parsed_items)
items_after_prepare(table, c, parsed_items) ==
    LET tss == {parsed_items[i].timestamp : i \in DOMAIN parsed_items} \ {0}
    IN  IF tss = {} THEN parsed_items
        ELSE PoppedItems(parsed_items, ExistingTimestamps(table, c, tss))

\* _bulk_create_price_data(commodity, price_data_list), the database accepting
\* the statement: the count returned
bulk_create_count(table, rows) ==
    IF rows = <<>> THEN 0 ELSE Len(CreatedObjects(table, rows))

\* the tables a caller can find: what earlier inserts have left
PriorTables == {bulk_create(<<>>, rows) : rows \in SeqsUpTo(PriorRows, MaxLen)}

InitReconcile ==
    /\ signals_connected \in BOOLEAN
    /\ price_data \in PriorTables
    /\ last_updated = [c \in Commodities |-> 0]
    /\ market_update = <<>>
    /\ now = 1
    /\ task = [t \in Tasks |-> IdleTask]
    /\ processor = [w \in Workers |-> IdleProcessor]
    /\ caller \in {[IdleCaller EXCEPT !.commodity = c, !.items = items,
                                      !.before = price_data] :
                      c \in Commodities, items \in SeqsUpTo(ParsedItemSet, MaxLen)}
    /\ service = NoService
    /\ fetcher = IdleFetcher
    /\ client = IdleClient
    /\ built = NothingBuilt

\* _prepare_price_data_entries followed by _bulk_create_price_data
ReconcileFirst ==
    /\ caller.pc = "idle"
    /\ LET c == caller.commodity
           rows == prepare_price_data_entries(price_data, c, caller.items)
       IN  /\ price_data' = bulk_create(price_data, rows)
           /\ caller' = [caller EXCEPT !.pc = "once",
                            !.first = bulk_create_count(price_data, rows)]
    /\ UNCHANGED <<built, client, fetcher, service, signals_connected, last_updated, market_update, now, task, processor>>

\* the same call again: with the very list objects the first call was given
\* (their timestamps popped) or with a list rebuilt from the same payload
ReconcileSecond ==
    /\ caller.pc = "once"
    /\ \E same_objects \in BOOLEAN :
          LET c == caller.commodity
              items == IF same_objects
                       THEN items_after_prepare(caller.before, c, caller.items)
                       ELSE caller.items
              rows == prepare_price_data_entries(price_data, c, items)
          IN  /\ price_data' = bulk_create(price_data, rows)
              /\ caller' = [caller EXCEPT !.pc = "twice",
                               !.second = bulk_create_count(price_data, rows)]
    /\ UNCHANGED <<built, client, fetcher, service, signals_connected, last_updated, market_update, now, task, processor>>

NextReconcile == ReconcileFirst \/ ReconcileSecond

SpecReconcile == InitReconcile /\ [][NextReconcile]_vars

\* ---------------------------------------------------------------- the normalisers, called directly
\* the tables a normaliser is run against: empty or holding one row
NormaliserTables == {table \in PriorTables : Len(table) <= 1}

\* a caller about to hand raw_data to process_alpha_vantage_data (source
\* "Alpha Vantage") or to process_fred_data (source "FRED")
InitNormalise ==
    /\ signals_connected \in BOOLEAN
    /\ price_data \in NormaliserTables
    /\ last_updated = [c \in Commodities |-> 0]
    /\ market_update = <<>>
    /\ now = 1
    /\ task = [t \in Tasks |-> IdleTask]
    /\ processor = [w \in Workers |-> IdleProcessor]
    /\ caller \in {[IdleCaller EXCEPT !.commodity = c, !.source = source,
                                      !.raw_data = raw_data, !.before = price_data] :
                      c \in Commodities, source \in {"Alpha Vantage", "FRED"},
                      raw_data \in PayloadsOver(AllEntries)}
    /\ service = NoService
    /\ fetcher = IdleFetcher
    /\ client = IdleClient
    /\ built = NothingBuilt

\* process_alpha_vantage_data / process_fred_data(commodity, raw_data): parse,
\* then _prepare_price_data_entries and _bulk_create_price_data
ProcessRawData ==
    /\ caller.pc = "idle"
    /\ caller.source # None
    /\ LET c == caller.commodity
           parsed == ParsedItems(caller.raw_data, caller.source)
           rows == prepare_price_data_entries(price_data, c, parsed)
       IN  /\ price_data' = bulk_create(price_data, rows)
           /\ caller' = [caller EXCEPT !.pc = "processed", !.items = parsed,
                            !.first = bulk_create_count(price_data, rows)]
    /\ UNCHANGED <<built, client, fetcher, service, signals_connected, last_updated, market_update, now,
                   task, processor>>

NextNormalise == ProcessRawData

SpecNormalise == InitNormalise /\ [][NextNormalise]_vars

\* ---------------------------------------------------------------- the ledger, called directly
\* post_save of MarketUpdate with created=True: market_update_post_save sets
\* started_at and saves again (then fails on MarketUpdate.STATUS_COMPLETED)
CreatedRow(c, status, clock) ==
    IF signals_connected
    THEN [NewMarketUpdate(c, status) EXCEPT !.started_at = clock]
    ELSE NewMarketUpdate(c, status)

LedgerCreate(c) ==
    /\ Len(market_update) < MaxRuns
    /\ now < MaxClock
    /\ market_update' = Append(market_update, CreatedRow(c, "PENDING", now))
    /\ now' = now + 1
    /\ UNCHANGED <<built, client, fetcher, service, signals_connected, price_data, last_updated, task, processor, caller>>

LedgerMarkAsRunning(i) ==
    /\ now < MaxClock
    /\ market_update' = [market_update EXCEPT ![i] = mark_as_running(@, now)]
    /\ now' = now + 1
    /\ UNCHANGED <<built, client, fetcher, service, signals_connected, price_data, last_updated, task, processor, caller>>

LedgerMarkCompleted(i, records_fetched, records_created) ==
    /\ now < MaxClock
    /\ market_update' = [market_update EXCEPT
            ![i] = mark_completed(@, now, records_fetched, records_created, 0)]
    /\ now' = now + 1
    /\ UNCHANGED <<built, client, fetcher, service, signals_connected, price_data, last_updated, task, processor, caller>>

LedgerMarkFailed(i, error_message) ==
    /\ now < MaxClock
    /\ market_update' = [market_update EXCEPT ![i] = mark_failed(@, now, error_message)]
    /\ now' = now + 1
    /\ UNCHANGED <<built, client, fetcher, service, signals_connected, price_data, last_updated, task, processor, caller>>

NextLedger ==
    \/ \E c \in Commodities : LedgerCreate(c)
    \/ \E i \in DOMAIN market_update : LedgerMarkAsRunning(i)
    \/ \E i \in DOMAIN market_update, f \in 0..MaxLen, n \in 0..MaxLen :
          n <= f /\ LedgerMarkCompleted(i, f, n)
    \/ \E i \in DOMAIN market_update :
          LedgerMarkFailed(i, "Failed to fetch data: HTTP error occurred")

SpecLedger == Init /\ [][NextLedger]_vars

\* ---------------------------------------------------------------- DataProcessor
\* timestamp strings of a record: "t<k>" is the ISO form of timestamp k
IsoStrings == {"t1", "t2", "t3", "t4", "bad"}

\* DataProcessor._parse_timestamp: 0 stands for the ValueError it raises
parse_timestamp(timestamp) ==
    CASE timestamp = "t1" -> 1
      [] timestamp = "t2" -> 2
      [] timestamp = "t3" -> 3
      [] timestamp = "t4" -> 4
      [] OTHER -> 0

\* one record of the raw data: data['timestamp'] and data.get('close')
Records ==
    [timestamp : {x \in IsoStrings : parse_timestamp(x) <= MaxTs},
     close : {None, "5.25", "10.5"}]

\* the records the interleavings are explored with: two good ones, one whose
\* timestamp does not parse and one without a close
FewRecords ==
    [timestamp : {x \in {"t1", "t2"} : parse_timestamp(x) <= MaxTs}, close : {"5.25"}]
        \cup {[timestamp |-> "bad", close |-> "5.25"],
              [timestamp |-> "t1", close |-> None]}

\* raw_data: {'data': [...]}, one record holding every price key, or neither
RawDataOver(records) ==
    [shape : {"data"}, records : SeqsUpTo(records, MaxLen)]
        \cup [shape : {"record"}, records : {<<r>> : r \in records}]
        \cup {[shape |-> "invalid", records |-> <<>>]}

\* DataProcessor._extract_price_data (the "invalid" shape raises ValueError)
extract_price_data(raw_data) == raw_data.records

\* price_data_post_save: a created row moves the commodity's last_updated to
\* the row's timestamp
price_data_post_save(updated, row, created) ==
    IF created THEN [updated EXCEPT ![row.commodity] = row.timestamp] ELSE updated

\* DataProcessor(market_update).process_data(raw_data), up to the loop
ProcessData(w, c, inputs) ==
    /\ processor[w].pc = "idle"
    /\ \E raw_data \in inputs :
          /\ raw_data.shape # "invalid"
          /\ raw_data.records # <<>>
          /\ processor' = [processor EXCEPT ![w] =
                [IdleProcessor EXCEPT !.pc = "filter", !.commodity = c,
                                      !.todo = extract_price_data(raw_data)]]
    /\ UNCHANGED <<built, client, fetcher, service, signals_connected, price_data, last_updated, market_update, now,
                   task, caller>>

\* the worker's position once the record at the head of todo is dealt with
NextRecord(pr) ==
    IF Len(pr.todo) > 1
    THEN [pr EXCEPT !.pc = "filter", !.todo = Tail(pr.todo), !.found = 0]
    ELSE IdleProcessor

\* _create_or_update_price_data: PriceData.objects.filter(...).first(); a
\* timestamp that does not parse ends the record (the except clause returns None)
FilterFirst(w) ==
    /\ processor[w].pc = "filter"
    /\ LET pr == processor[w]
           timestamp == parse_timestamp(Head(pr.todo).timestamp)
           hits == {i \in RowsOf(price_data, pr.commodity) :
                       price_data[i].timestamp = timestamp}
       IN  processor' = [processor EXCEPT ![w] =
               IF timestamp = 0 THEN NextRecord(pr)
               ELSE [pr EXCEPT !.pc = "write",
                               !.found = IF hits = {} THEN 0
                                         ELSE CHOOSE i \in hits : TRUE]]
    /\ UNCHANGED <<built, client, fetcher, service, signals_connected, price_data, last_updated, market_update, now,
                   task, caller>>

\* _create_or_update_price_data: price_data.save() of the row found, or
\* PriceData.objects.create(...).  A null close and a key another writer has
\* taken since the filter raise IntegrityError, which the except clause swallows.
SaveOrCreate(w) ==
    /\ processor[w].pc = "write"
    /\ LET pr == processor[w]
           data == Head(pr.todo)
           row == [commodity |-> pr.commodity,
                   timestamp |-> parse_timestamp(data.timestamp),
                   close_price |-> to_decimal(data.close), open_price |-> None]
       IN  /\ processor' = [processor EXCEPT ![w] = NextRecord(pr)]
           /\ IF row.close_price = None
              THEN UNCHANGED <<price_data, last_updated>>
              ELSE IF pr.found # 0
              THEN /\ price_data' = [price_data EXCEPT ![pr.found] = row]
                   /\ last_updated' =
                         IF signals_connected
                         THEN price_data_post_save(last_updated, row, FALSE)
                         ELSE last_updated
              ELSE IF UniqueTogether(price_data, row)
              THEN /\ price_data' = Append(price_data, row)
                   /\ last_updated' =
                         IF signals_connected
                         THEN price_data_post_save(last_updated, row, TRUE)
                         ELSE last_updated
              ELSE UNCHANGED <<price_data, last_updated>>
    /\ UNCHANGED <<built, client, fetcher, service, signals_connected, market_update, now, task, caller>>

NextProcessor ==
    \/ \E w \in Workers, c \in Commodities : ProcessData(w, c, RawDataOver(FewRecords))
    \/ \E w \in Workers : FilterFirst(w)
    \/ \E w \in Workers : SaveOrCreate(w)

SpecProcessor == Init /\ [][NextProcessor]_vars

\* ---------------------------------------------------------------- AlphaVantageClient, FREDClient
\* texts of an Alpha Vantage 'Note' / 'Information' field ("": empty string)
NoteTexts ==
    {"", "Thank you for using Alpha Vantage!",
     "Our standard API call frequency is 5 calls per minute.",
     "This is a premium endpoint.",
     "API CALL FREQUENCY exceeded."}

\* "call frequency" in note.lower()
MentionsCallFrequency(note) ==
    note \in {"Our standard API call frequency is 5 calls per minute.",
              "API CALL FREQUENCY exceeded."}

\* "premium endpoint" in note.lower()
MentionsPremiumEndpoint(note) == note = "This is a premium endpoint."

\* texts of an Alpha Vantage 'Error Message' field
ErrorTexts == {"", "Invalid API call."}

\* values of FRED's error_code (0: the key is absent) and error_message
ErrorCodes == {0, 400, 429}
FredMessages == {None, "Bad Request. The series does not exist.",
                 "API Rate Limit Exceeded."}

\* "rate limit" in (error_message or "").lower()
MentionsRateLimit(message) == message = "API Rate Limit Exceeded."

\* truthiness of a str-or-None value
Truthy(v) == v \notin {None, ""}

\* the bodies an Alpha Vantage request can decode to
AlphaVantageBodies ==
    {[NoBody EXCEPT !.error = e, !.note = n, !.information = i, !.payload = d] :
        e \in ErrorTexts \cup {None}, n \in NoteTexts \cup {None},
        i \in NoteTexts \cup {None}, d \in BOOLEAN}

\* the bodies a FRED request can decode to
FredBodies ==
    {[NoBody EXCEPT !.error_code = k, !.error_message = m, !.payload = d] :
        k \in ErrorCodes, m \in FredMessages, d \in BOOLEAN}

\* `not data`: the decoded body is an empty dict
IsEmptyDict(data) == data = NoBody

\* AlphaVantageClient._handle_alpha_vantage_response: what it returns, or the
\* exception it raises
handle_alpha_vantage_response(data) ==
    IF IsEmptyDict(data) THEN [returned |-> NoBody, raised |-> None]
    ELSE IF data.error # None
    THEN [returned |-> NoBody, raised |-> "DataFetchError"]
    ELSE LET note == IF Truthy(data.note) THEN data.note ELSE data.information
         IN  IF Truthy(note) /\ (MentionsCallFrequency(note) \/ MentionsPremiumEndpoint(note))
             THEN [returned |-> NoBody, raised |-> "RateLimitExceededError"]
             ELSE [returned |-> data, raised |-> None]

\* FREDClient._handle_fred_response
handle_fred_response(data) ==
    IF IsEmptyDict(data) THEN [returned |-> NoBody, raised |-> None]
    ELSE IF data.error_code # 0 \/ Truthy(data.error_message)
    THEN IF data.error_code = 429 \/ MentionsRateLimit(data.error_message)
         THEN [returned |-> NoBody, raised |-> "RateLimitExceededError"]
         ELSE [returned |-> NoBody, raised |-> "DataFetchError"]
    ELSE [returned |-> data, raised |-> None]

\* what BaseAPIClient._make_request ends with: the decoded body ("json"), or
\* DataFetchError for an HTTP error status, an undecodable body or a failed
\* request
TransportOutcomes == {"json", "HTTPError", "JSONDecodeError", "RequestException"}

\* a fetch method of a client: self.get(...), then the response handler on the
\* decoded body (handled: what the handler ends with)
ClientFetch(provider, transport, data, handled) ==
    IF transport # "json"
    THEN [pc |-> "raised", provider |-> provider, body |-> NoBody,
          returned |-> NoBody, raised |-> "DataFetchError"]
    ELSE [pc |-> IF handled.raised = None THEN "returned" ELSE "raised",
          provider |-> provider, body |-> data,
          returned |-> handled.returned, raised |-> handled.raised]

\* AlphaVantageClient.fetch_time_series_daily
FetchTimeSeriesDaily ==
    /\ \E transport \in TransportOutcomes, data \in AlphaVantageBodies :
          client' = ClientFetch("alpha vantage", transport, data,
                                handle_alpha_vantage_response(data))
    /\ UNCHANGED <<built, fetcher, service, signals_connected, price_data, last_updated,
                   market_update, now, task, processor, caller>>

\* FREDClient.fetch_series_observations
FetchSeriesObservations ==
    /\ \E transport \in TransportOutcomes, data \in FredBodies :
          client' = ClientFetch("fred", transport, data, handle_fred_response(data))
    /\ UNCHANGED <<built, fetcher, service, signals_connected, price_data, last_updated,
                   market_update, now, task, processor, caller>>

NextClient == FetchTimeSeriesDaily \/ FetchSeriesObservations

SpecClient == Init /\ [][NextClient]_vars

\* ---------------------------------------------------------------- CommodityDataFetcherOrchestrator
\* DataSource.name of the commodity a fetch is asked for
ProviderNames == {"Alpha Vantage", "alpha vantage", "FRED", "Quandl"}

\* the lower-cased names _get_client_for_source has a client class for
RegisteredProviders == {"alpha vantage", "fred"}

\* what a client's fetch method ends with: the body it returns ("data", or
\* "empty" for {}) or the exception _make_request / the response handler raises
ClientOutcomes == {"data", "empty", "RateLimitExceededError", "DataFetchError"}

\* self._clients[key] = client
SetItem(clients, key, id) ==
    {p \in clients : p.name # key} \cup {[name |-> key, id |-> id]}

\* _get_client_for_source without the `not in self._clients` test: a client is
\* constructed on every call
get_client_uncached(clients, source_name, key_set, made) ==
    LET source_name_lower == Lower(source_name)
    IN  IF source_name_lower \in RegisteredProviders
        THEN IF key_set
             THEN [clients |-> SetItem(clients, source_name_lower, made + 1),
                   made |-> made + 1, client |-> made + 1, raised |-> None]
             ELSE [clients |-> clients, made |-> made, client |-> 0,
                   raised |-> "APIKeyMissingError"]
        ELSE [clients |-> clients, made |-> made, client |-> 0,
              raised |-> "ConfigurationError"]

\* _get_client_for_source: the cache afterwards, the client returned (0: none)
\* and the exception raised (None: the client is returned).  key_set: the
\* provider's API key is in settings, so the client's constructor succeeds.
get_client_for_source(clients, source_name, key_set, made) ==
    LET source_name_lower == Lower(source_name)
    IN  IF \E p \in clients : p.name = source_name_lower
        THEN [clients |-> clients, made |-> made,
              client |-> (CHOOSE p \in clients : p.name = source_name_lower).id,
              raised |-> None]
        ELSE IF source_name_lower \in RegisteredProviders
        THEN IF key_set
             THEN [clients |-> SetItem(clients, source_name_lower, made + 1),
                   made |-> made + 1, client |-> made + 1, raised |-> None]
             ELSE [clients |-> clients, made |-> made, client |-> 0,
                   raised |-> "APIKeyMissingError"]
        ELSE [clients |-> clients, made |-> made, client |-> 0,
              raised |-> "ConfigurationError"]

\* fetch_data_for_commodity(commodity): the try block and its except clause,
\* which re-raises whatever was raised as DataFetchError
FetchDataForCommodity ==
    /\ \E c \in Commodities, source_name \in ProviderNames, key_set \in BOOLEAN,
          outcome \in ClientOutcomes :
          LET got == get_client_for_source(fetcher.clients, source_name, key_set,
                                           fetcher.made)
              cause == IF got.raised # None THEN got.raised
                       ELSE IF outcome \in {"data", "empty"} THEN None
                       ELSE outcome
              served == IF got.raised = None
                        THEN fetcher.served \cup {[source |-> source_name, id |-> got.client]}
                        ELSE fetcher.served
          IN  fetcher' =
                 IF cause = None
                 THEN [pc |-> "returned", clients |-> got.clients, made |-> got.made,
                       served |-> served,
                       commodity |-> c, source |-> source_name, result |-> outcome,
                       raised |-> None, cause |-> None]
                 ELSE [pc |-> "raised", clients |-> got.clients, made |-> got.made,
                       served |-> served,
                       commodity |-> c, source |-> source_name, result |-> None,
                       raised |-> WrappedClass(cause), cause |-> cause]
    /\ UNCHANGED <<built, client, service, signals_connected, price_data, last_updated,
                   market_update, now, task, processor, caller>>

NextFetcher == FetchDataForCommodity

SpecFetcher == Init /\ [][NextFetcher]_vars

\* ---------------------------------------------------------------- UpdateService
\* what a caller may pass to UpdateService(data_source_name): the name the
\* signature asks for (a str) or a DataSource instance
SourceArguments == {"name", "instance"}

\* the names services/data_fetcher.py defines
DataFetcherNames ==
    {"AlphaVantageClient", "FREDClient", "CommodityDataFetcherOrchestrator"}

\* Commodity.objects.filter(is_active=True): the active commodities, in the
\* order the query returns them
ActiveCommodities ==
    {q \in SeqsUpTo(Commodities, Cardinality(Commodities)) :
        \A i, j \in DOMAIN q : q[i] = q[j] => i = j}

\* UpdateService.__init__
NewUpdateService ==
    /\ service.pc = "none"
    /\ \E data_source_name \in SourceArguments :
          service' = [NoService EXCEPT !.pc = "idle", !.source = data_source_name]
    /\ UNCHANGED <<built, client, fetcher, signals_connected, price_data, last_updated, market_update, now,
                   task, processor, caller>>

\* update_all_commodities, up to the loop
UpdateAllCommodities ==
    /\ service.pc \in {"idle", "returned", "raised"}
    /\ \E commodities \in ActiveCommodities :
          service' = [service EXCEPT
                !.pc = IF commodities = <<>> THEN "returned" ELSE "create",
                !.batch = commodities, !.todo = commodities, !.e = None,
                !.processed = {}, !.created = {}, !.successful_updates = <<>>,
                !.exc = None]
    /\ UNCHANGED <<built, client, fetcher, signals_connected, price_data, last_updated, market_update, now,
                   task, processor, caller>>

\* update_commodity, the try block's first statement: self.market_update =
\* MarketUpdate.objects.create(data_source=self.data_source_name, ...,
\* status='in_progress', started_at=timezone.now()).  A str given for the
\* foreign key raises ValueError before any row is written; the database may
\* refuse the insert; with the signal handlers connected the row is written and
\* market_update_post_save raises AttributeError out of create().  In each of
\* these the assignment to self.market_update does not happen.
CreateMarketUpdate ==
    /\ service.pc = "create"
    /\ \E db \in {"ok", "DatabaseError"} :
          IF service.source = "name"
          THEN /\ service' = [service EXCEPT !.pc = "handler", !.e = "ValueError"]
               /\ UNCHANGED <<market_update, now>>
          ELSE IF db = "DatabaseError"
          THEN /\ service' = [service EXCEPT !.pc = "handler", !.e = "DatabaseError"]
               /\ UNCHANGED <<market_update, now>>
          ELSE /\ Len(market_update) < MaxRuns
               /\ now < MaxClock
               /\ market_update' = Append(market_update,
                      [NewMarketUpdate(Head(service.todo), "in_progress")
                          EXCEPT !.started_at = now])
               /\ now' = now + 1
               /\ service' =
                      IF signals_connected /\ "STATUS_COMPLETED" \notin MarketUpdateAttributes
                      THEN [service EXCEPT !.pc = "handler", !.e = "AttributeError",
                                           !.own = Len(market_update) + 1,
                                           !.created = @ \cup {Len(market_update) + 1}]
                      ELSE [service EXCEPT !.pc = "fetcher",
                                           !.market_update = Len(market_update) + 1,
                                           !.own = Len(market_update) + 1,
                                           !.created = @ \cup {Len(market_update) + 1}]
    /\ UNCHANGED <<built, client, fetcher, signals_connected, price_data, last_updated, task, processor, caller>>

\* self.data_fetcher = DataFetcher(self.data_source_name): data_fetcher.py
\* defines no DataFetcher, so the statement raises and the rest of the try
\* block (fetch, DataProcessor, the 'completed' write) is never reached
InitDataFetcher ==
    /\ service.pc = "fetcher"
    /\ "DataFetcher" \notin DataFetcherNames
    /\ service' = [service EXCEPT !.pc = "handler", !.e = "NameError"]
    /\ UNCHANGED <<built, client, fetcher, signals_connected, price_data, last_updated, market_update, now,
                   task, processor, caller>>

\* UpdateService._mark_update_failed on the row self.market_update names
mark_update_failed(log, clock, error_message) ==
    [log EXCEPT !.status = "failed", !.error_message = error_message,
                !.completed_at = clock]

\* the loop of update_all_commodities taken with an update that is appended
\* whatever it is: the entry self.market_update names, failed or not
AfterUpdateCommodityKeepingAll(sv) ==
    [sv EXCEPT !.pc = IF Len(sv.todo) > 1 THEN "create" ELSE "returned",
               !.todo = Tail(sv.todo), !.e = None, !.own = 0,
               !.processed = @ \cup {Head(sv.todo)},
               !.successful_updates =
                    IF sv.market_update # 0 THEN Append(@, sv.market_update) ELSE @]

\* the service once update_commodity has returned to the loop of
\* update_all_commodities.  update is what it returned: None (0), the only
\* value the except clause returns; it is appended `if update and
\* update.status == 'completed'`
AfterUpdateCommodity(sv) ==
    LET update == 0
    IN  [sv EXCEPT !.pc = IF Len(sv.todo) > 1 THEN "create" ELSE "returned",
                   !.todo = Tail(sv.todo), !.e = None, !.own = 0,
                   !.processed = @ \cup {Head(sv.todo)},
                   !.successful_updates =
                        IF update # 0 /\ market_update[update].status = "completed"
                        THEN Append(@, update) ELSE @]

\* update_commodity, `except Exception as e`: if self.market_update is set it
\* is marked failed with str(e), then None is returned.  The save() of
\* _mark_update_failed runs market_update_post_save when the handlers are
\* connected, which raises out of the except clause.
ExceptException ==
    /\ service.pc = "handler"
    /\ IF service.market_update = 0
       THEN /\ service' = AfterUpdateCommodity(service)
            /\ UNCHANGED <<market_update, now>>
       ELSE /\ now < MaxClock
            /\ market_update' = [market_update EXCEPT ![service.market_update] =
                   mark_update_failed(@, now, service.e)]
            /\ now' = now + 1
            /\ service' =
                   IF signals_connected /\ "STATUS_COMPLETED" \notin MarketUpdateAttributes
                   THEN [service EXCEPT !.pc = "raised", !.exc = "AttributeError"]
                   ELSE AfterUpdateCommodity(service)
    /\ UNCHANGED <<built, client, fetcher, signals_connected, price_data, last_updated, task, processor, caller>>

NextService ==
    \/ NewUpdateService
    \/ UpdateAllCommodities
    \/ CreateMarketUpdate
    \/ InitDataFetcher
    \/ ExceptException

SpecService == Init /\ [][NextService]_vars

\* ---------------------------------------------------------------- UpdateService, shared by threads
\* thread t calls update_commodity(c) on the constructed service
CallUpdateCommodity(t, c) ==
    /\ service.pc = "idle"
    /\ service.calls[t].pc \in {"idle", "returned", "raised"}
    /\ service' = [service EXCEPT !.calls[t] =
            [IdleCall EXCEPT !.pc = "create", !.commodity = c]]
    /\ UNCHANGED <<built, client, fetcher, signals_connected, price_data, last_updated, market_update, now,
                   task, processor, caller>>

\* thread t at self.market_update = MarketUpdate.objects.create(...): the
\* statement of CreateMarketUpdate, run by a thread
CallCreateMarketUpdate(t) ==
    /\ service.calls[t].pc = "create"
    /\ \E db \in {"ok", "DatabaseError"} :
          IF service.source = "name"
          THEN /\ service' = [service EXCEPT !.calls[t].pc = "handler",
                                             !.calls[t].e = "ValueError"]
               /\ UNCHANGED <<market_update, now>>
          ELSE IF db = "DatabaseError"
          THEN /\ service' = [service EXCEPT !.calls[t].pc = "handler",
                                             !.calls[t].e = "DatabaseError"]
               /\ UNCHANGED <<market_update, now>>
          ELSE /\ Len(market_update) < MaxRuns
               /\ now < MaxClock
               /\ market_update' = Append(market_update,
                      [NewMarketUpdate(service.calls[t].commodity, "in_progress")
                          EXCEPT !.started_at = now])
               /\ now' = now + 1
               /\ service' =
                      IF signals_connected /\ "STATUS_COMPLETED" \notin MarketUpdateAttributes
                      THEN [service EXCEPT !.calls[t].pc = "handler",
                                           !.calls[t].e = "AttributeError",
                                           !.calls[t].own = Len(market_update) + 1]
                      ELSE [service EXCEPT !.calls[t].pc = "fetcher",
                                           !.market_update = Len(market_update) + 1,
                                           !.calls[t].own = Len(market_update) + 1]
    /\ UNCHANGED <<built, client, fetcher, signals_connected, price_data, last_updated, task, processor, caller>>

\* thread t at self.data_fetcher = DataFetcher(...): NameError
CallInitDataFetcher(t) ==
    /\ service.calls[t].pc = "fetcher"
    /\ "DataFetcher" \notin DataFetcherNames
    /\ service' = [service EXCEPT !.calls[t].pc = "handler", !.calls[t].e = "NameError"]
    /\ UNCHANGED <<built, client, fetcher, signals_connected, price_data, last_updated, market_update, now,
                   task, processor, caller>>

\* thread t in the except clause: it marks the entry self.market_update names
\* at that moment, whichever thread assigned it
CallExceptException(t) ==
    /\ service.calls[t].pc = "handler"
    /\ IF service.market_update = 0
       THEN /\ service' = [service EXCEPT !.calls[t].pc = "returned"]
            /\ UNCHANGED <<market_update, now>>
       ELSE /\ now < MaxClock
            /\ market_update' = [market_update EXCEPT ![service.market_update] =
                   mark_update_failed(@, now, service.calls[t].e)]
            /\ now' = now + 1
            /\ service' =
                   IF signals_connected /\ "STATUS_COMPLETED" \notin MarketUpdateAttributes
                   THEN [service EXCEPT !.calls[t].pc = "raised",
                                        !.calls[t].exc = "AttributeError"]
                   ELSE [service EXCEPT !.calls[t].pc = "returned"]
    /\ UNCHANGED <<built, client, fetcher, signals_connected, price_data, last_updated, task, processor, caller>>

NextShared ==
    \/ NewUpdateService
    \/ \E t \in Tasks, c \in Commodities : CallUpdateCommodity(t, c)
    \/ \E t \in Tasks : CallCreateMarketUpdate(t)
    \/ \E t \in Tasks : CallInitDataFetcher(t)
    \/ \E t \in Tasks : CallExceptException(t)

SpecShared == Init /\ [][NextShared]_vars

\* ---------------------------------------------------------------- constructors
\* the methods BaseAPIClient declares with @abstractmethod
AbstractMethods == {"build_request_params"}

\* the methods each class of services/data_fetcher.py defines itself
MethodsOf(class) ==
    CASE class = "AlphaVantageClient" ->
            {"__init__", "build_request_params", "fetch_time_series_daily",
             "_handle_alpha_vantage_response"}
      [] class = "FREDClient" ->
            {"__init__", "build_request_params", "fetch_series_observations",
             "_handle_fred_response"}
      [] class = "CommodityDataFetcherOrchestrator" ->
            {"__init__", "_get_client_for_source", "fetch_data_for_commodity"}

\* what a caller passes for api_key and base_url, and what settings holds for
\* the provider's key
KeyArguments == {None, "", "key-argument"}
UrlArguments == {None, "", "https://proxy.example/"}
SettingsKeys == {"", "key-in-settings"}

\* `a or b` on str-or-None values
Or(a, b) == IF Truthy(a) THEN a ELSE b

\* base_url.rstrip('/')
rstrip_slash(url) == IF url = "https://proxy.example/" THEN "https://proxy.example" ELSE url

\* BaseAPIClient.__init__ on an object of `class`: the object, or what is
\* raised.  A class that leaves an abstract method undefined cannot be
\* instantiated: TypeError is raised before any __init__ runs.
BaseAPIClientInit(class, base_url, api_key) ==
    IF ~(AbstractMethods \subseteq MethodsOf(class))
    THEN [raised |-> "TypeError", object |-> None]
    ELSE IF ~Truthy(base_url)
    THEN [raised |-> "ConfigurationError", object |-> None]
    ELSE [raised |-> None,
          object |-> [class |-> class, base_url |-> rstrip_slash(base_url),
                      api_key |-> api_key, clients |-> {}]]

\* AlphaVantageClient.__init__ / FREDClient.__init__
ProviderClientInit(class, default_base_url, api_key, base_url, settings_key) ==
    LET resolved_api_key == Or(api_key, settings_key)
    IN  IF ~Truthy(resolved_api_key)
        THEN [raised |-> "APIKeyMissingError", object |-> None]
        ELSE BaseAPIClientInit(class, Or(base_url, default_base_url), resolved_api_key)

\* CommodityDataFetcherOrchestrator.__init__: super().__init__(base_url=""),
\* then self._clients = {}
OrchestratorInit == BaseAPIClientInit("CommodityDataFetcherOrchestrator", "", None)

\* the state after a constructor call that ended with `made`
Built(class, made) ==
    [objects |-> IF made.raised = None THEN built.objects \cup {made.object}
                 ELSE built.objects,
     class |-> class, raised |-> made.raised]

NewAlphaVantageClient ==
    /\ \E api_key \in KeyArguments, base_url \in UrlArguments, settings_key \in SettingsKeys :
          built' = Built("AlphaVantageClient",
                         ProviderClientInit("AlphaVantageClient", "https://www.alphavantage.co",
                                            api_key, base_url, settings_key))
    /\ UNCHANGED <<client, fetcher, service, signals_connected, price_data, last_updated,
                   market_update, now, task, processor, caller>>

NewFREDClient ==
    /\ \E api_key \in KeyArguments, base_url \in UrlArguments, settings_key \in SettingsKeys :
          built' = Built("FREDClient",
                         ProviderClientInit("FREDClient", "https://api.stlouisfed.org/fred",
                                            api_key, base_url, settings_key))
    /\ UNCHANGED <<client, fetcher, service, signals_connected, price_data, last_updated,
                   market_update, now, task, processor, caller>>

NewCommodityDataFetcherOrchestrator ==
    /\ built' = Built("CommodityDataFetcherOrchestrator", OrchestratorInit)
    /\ UNCHANGED <<client, fetcher, service, signals_connected, price_data, last_updated,
                   market_update, now, task, processor, caller>>

\* MarketUpdateOrchestrationService.__init__: self.data_fetcher =
\* CommodityDataFetcherOrchestrator() is its first statement, and what that
\* raises leaves the constructor
NewMarketUpdateOrchestrationService ==
    /\ LET data_fetcher == OrchestratorInit
       IN  built' = Built("MarketUpdateOrchestrationService",
                IF data_fetcher.raised # None THEN data_fetcher
                ELSE [raised |-> None,
                      object |-> [class |-> "MarketUpdateOrchestrationService",
                                  base_url |-> None, api_key |-> None,
                                  clients |-> data_fetcher.object.clients]])
    /\ UNCHANGED <<client, fetcher, service, signals_connected, price_data, last_updated,
                   market_update, now, task, processor, caller>>

NextConstruct ==
    \/ NewAlphaVantageClient
    \/ NewFREDClient
    \/ NewCommodityDataFetcherOrchestrator
    \/ NewMarketUpdateOrchestrationService

SpecConstruct == Init /\ [][NextConstruct]_vars

\* ---------------------------------------------------------------- update_single_commodity, concurrently
Next ==
    \/ \E t \in Tasks, c \in Commodities : CreateUpdateLog(t, c)
    \/ \E t \in Tasks : MarkAsRunning(t)
    \/ \E t \in Tasks : FetchRaises(t, {"APIKeyMissingError", "RateLimitExceededError", "DataFetchError"})
    \/ \E t \in Tasks : FetchAndPrepare(t, PayloadsOver(FewEntries))
    \/ \E t \in Tasks : BulkCreatePriceData(t)
    \/ \E t \in Tasks : MarkAsCompleted(t)

Spec == Init /\ [][Next]_vars

\* both kinds of writer at once: update_single_commodity runs and
\* DataProcessor.process_data runs against the same table
\* the records that get written, with a second price for t1
WrittenRecords ==
    {r \in FewRecords : parse_timestamp(r.timestamp) # 0 /\ r.close # None}
        \cup {[timestamp |-> "t1", close |-> "10.5"]}

SingleRecords == {r \in RawDataOver(WrittenRecords) : r.shape = "record"}

NextWriters ==
    \/ \E c \in Commodities : CreateUpdateLog(1, c)
    \/ MarkAsRunning(1)
    \/ FetchAndPrepare(1, PayloadsOver(FewEntries))
    \/ BulkCreatePriceData(1)
    \/ MarkAsCompleted(1)
    \/ \E c \in Commodities : ProcessData(1, c, SingleRecords)
    \/ FilterFirst(1)
    \/ SaveOrCreate(1)

SpecWriters == Init /\ [][NextWriters]_vars

\* ---------------------------------------------------------------- properties
\* the ledger row of the run worker t made last
LogOf(t) == market_update[task[t].log]

\* worker t's call of update_single_commodity has ended
Ended(t) == task[t].pc = "done"

Max(S) == CHOOSE x \in S : \A y \in S : y <= x

\* the caller's items are N candidates with distinct, new timestamps and a close
DistinctNew ==
    /\ caller.items # <<>>
    /\ \A i \in DOMAIN caller.items :
          /\ caller.items[i].timestamp # 0
          /\ caller.items[i].close_price # None
          /\ caller.items[i].timestamp \notin
                {caller.before[j].timestamp : j \in RowsOf(caller.before, caller.commodity)}
          /\ \A j \in DOMAIN caller.items :
                caller.items[i].timestamp = caller.items[j].timestamp => i = j

\* C1: reconciling the same N candidates (distinct new timestamps, all with a
\* close) twice returns N, then 0, and the commodity's stored rows have grown
\* by exactly N (to N when it had none).
C1_ReconcileIdempotent ==
    (caller.pc = "twice" /\ DistinctNew) =>
        /\ caller.first = Len(caller.items)
        /\ caller.second = 0
        /\ Cardinality(RowsOf(price_data, caller.commodity))
              = Cardinality(RowsOf(caller.before, caller.commodity)) + Len(caller.items)

C1_Witness ==
    /\ caller.pc = "twice"
    /\ DistinctNew
    /\ Len(caller.items) = MaxLen
    /\ RowsOf(caller.before, caller.commodity) = {}

\* C5: once a ledger entry's status is terminal no ledger operation changes it
\* (in particular none takes it back to RUNNING).
C5_TerminalIsFinal ==
    [][\A i \in DOMAIN market_update :
          market_update[i].status \in TerminalStatuses =>
              market_update'[i].status = market_update[i].status]_vars

\* C2: no two stored price observations share (commodity, timestamp), whatever
\* the interleaving of the update runs.
C2_UniqueKey ==
    \A i, j \in DOMAIN price_data :
        (price_data[i].commodity = price_data[j].commodity
            /\ price_data[i].timestamp = price_data[j].timestamp) => i = j

\* a run whose insert met a row another run had written after its pre-check
C2_Witness ==
    \E t \in Tasks : task[t].rows_added < task[t].records_created

\* C3: a run whose payload holds only timestamps ingested earlier adds no row,
\* returns createdCount 0 and finalises its ledger entry as PARTIAL.
C3_RetryEndsPartial ==
    \A t \in Tasks :
        (Ended(t) /\ task[t].candidates = "known") =>
            /\ task[t].rows_added = 0
            /\ task[t].records_created = 0
            /\ task[t].exc = None
            /\ LogOf(t).status = "PARTIAL"

\* C4: a run that raised no exception upstream ends FAILED when nothing was
\* fetched, PARTIAL when records were fetched and none created, SUCCESS when
\* some were created.
C4_Classification ==
    \A t \in Tasks :
        (Ended(t) /\ task[t].cause = None /\ task[t].status_arg # None) =>
            LogOf(t).status =
                IF task[t].records_created > 0 THEN "SUCCESS"
                ELSE IF task[t].num_fetched = 0 THEN "FAILED"
                ELSE "PARTIAL"

\* C6: every run performs the terminal write (status, completed_at, counters)
\* of its ledger entry exactly once.
C6_OneTerminalWrite ==
    \A t \in Tasks :
        Ended(t) =>
            /\ LogOf(t).status \in TerminalStatuses
            /\ LogOf(t).completed_at # 0

\* C7: an exception raised during fetch, normalisation or reconciliation does
\* not propagate, and the ledger entry ends FAILED with the exception's message.
C7_ExceptionsCaught ==
    \A t \in Tasks :
        (Ended(t) /\ task[t].cause # None) =>
            /\ task[t].exc = None
            /\ LogOf(t).status = "FAILED"
            /\ LogOf(t).error_message = WrappedMessage(task[t].cause)

\* C8: when the update operation returns or raises, the ledger entry it
\* created is SUCCESS, PARTIAL or FAILED, never PENDING or RUNNING.
C8_EndsTerminal ==
    \A t \in Tasks :
        Ended(t) => LogOf(t).status \notin {"PENDING", "RUNNING"}

\* C9: last_updated of a commodity equals the greatest timestamp among the
\* observations written for it, and is set once one has been written.
C9_LastUpdatedIsMax ==
    \A c \in Commodities :
        RowsOf(price_data, c) # {} =>
            last_updated[c] = Max({price_data[i].timestamp : i \in RowsOf(price_data, c)})

\* C10: no step that writes a price observation moves a commodity's
\* last_updated backwards.
C10_LastUpdatedAdvances ==
    [][\A c \in Commodities : last_updated'[c] >= last_updated[c]]_vars

\* the batch of update_all_commodities has ended (returned or raised)
BatchEnded == service.pc \in {"returned", "raised"}

\* C11: when update_all_commodities ends, every active commodity has been
\* processed and each of them has a ledger entry of its own that the batch
\* created for it.
C11_BatchIsolation ==
    BatchEnded =>
        /\ service.exc = None
        /\ service.processed = {service.batch[i] : i \in DOMAIN service.batch}
        /\ \A c \in service.processed :
              \E i \in service.created : market_update[i].commodity = c

\* C13: every ledger entry's status is one of PENDING, RUNNING, SUCCESS,
\* PARTIAL, FAILED.
C13_StatusInChoices ==
    \A i \in DOMAIN market_update :
        market_update[i].status \in {"PENDING", "RUNNING"} \cup TerminalStatuses

\* C14: a fetch for a commodity whose provider has no registered client ends
\* with ConfigurationError at the caller.
C14_UnregisteredIsConfigurationError ==
    (fetcher.pc \in {"returned", "raised"}
        /\ Lower(fetcher.source) \notin RegisteredProviders) =>
        fetcher.raised = "ConfigurationError"

\* C12: the count a run's reconciliation returns is the number of rows that
\* run added to the table.
C12_CountIsRowsAdded ==
    \A t \in Tasks : task[t].records_created = task[t].rows_added

\* C15: a failed run is handled by the except clause of the kind of exception
\* raised upstream: rate limit, configuration / missing key, or fetch.
C15_ClassifiedByKind ==
    \A t \in Tasks :
        (Ended(t) /\ task[t].cause \in FetchFailures) => task[t].caught = task[t].cause

\* C16: a stored observation is never changed by a later ingestion of a
\* candidate with its key (first write wins).
C16_FirstWriteWins ==
    [][\A i \in DOMAIN price_data : price_data'[i] = price_data[i]]_vars

\* the caller handed a FRED-shaped payload to process_fred_data
FredShaped ==
    /\ caller.pc = "processed"
    /\ caller.source = "FRED"
    /\ caller.raw_data.key = "observations"

\* a payload string that is no number
NotANumber(v) == v \in {None, "", ".", "n/a"}

\* the timestamps the commodity had rows for before the call
TimestampsBefore ==
    {caller.before[j].timestamp : j \in RowsOf(caller.before, caller.commodity)}

\* exactly one observation has the sentinel, an empty or a missing value; the
\* others have a date that parses and a numeric value, on distinct dates
OneSentinelAmongValid ==
    LET obs == caller.raw_data.entries
        skipped == {i \in DOMAIN obs : obs[i].close \in {None, "", "."}}
    IN  /\ Cardinality(skipped) = 1
        /\ \A i \in DOMAIN obs \ skipped :
              /\ parse_date_string(obs[i].date) # 0
              /\ ~NotANumber(obs[i].close)
              /\ \A j \in DOMAIN obs \ skipped : obs[i].date = obs[j].date => i = j

\* C18: of a FRED-shaped payload with exactly one sentinel / empty / missing
\* value among valid observations on distinct dates, process_fred_data makes
\* one candidate fewer than the list is long, and the commodity's rows grow
\* by the valid observations whose timestamps were not stored yet.
C18_SentinelSkipped ==
    (FredShaped /\ OneSentinelAmongValid) =>
        LET obs == caller.raw_data.entries
            valid == {i \in DOMAIN obs : obs[i].close \notin {None, "", "."}}
        IN  /\ Len(caller.items) = Len(obs) - 1
            /\ \A k \in DOMAIN caller.items : caller.items[k].close_price # None
            /\ \A i \in valid :
                  parse_date_string(obs[i].date) \notin TimestampsBefore =>
                     \E r \in RowsOf(price_data, caller.commodity) :
                        /\ price_data[r].timestamp = parse_date_string(obs[i].date)
                        /\ price_data[r].close_price = to_decimal(obs[i].close)
            /\ Cardinality(RowsOf(price_data, caller.commodity)) =
                  Cardinality(TimestampsBefore) +
                  Cardinality({i \in valid :
                                 parse_date_string(obs[i].date) \notin TimestampsBefore})

\* [{d1, "."}, {d2, "5.25"}] for a commodity without rows: one row, (d2, 5.25)
C18_Witness ==
    /\ FredShaped
    /\ OneSentinelAmongValid
    /\ Len(caller.raw_data.entries) = 2
    /\ caller.raw_data.entries[1].close = "."
    /\ caller.before = <<>>
    /\ Len(price_data) = 1
    /\ price_data[1].close_price = "D5.25"

\* the caller handed a time-series payload to process_alpha_vantage_data
TimeSeriesShaped ==
    /\ caller.pc = "processed"
    /\ caller.source = "Alpha Vantage"
    /\ IsTimeSeriesKey(caller.raw_data.key)

\* C20: a value that fails numeric coercion counts as absent, never as zero:
\* a price point whose close is missing or no number makes no candidate and
\* is not stored; one with a numeric close and an open that is no number is
\* stored with that close and without an open; no stored price is zero.
C20_FailedCoercionIsAbsent ==
    TimeSeriesShaped =>
        LET points == caller.raw_data.entries
        IN  /\ \A i \in DOMAIN points :
                  LET timestamp == parse_date_string(points[i].date)
                      stored == {r \in RowsOf(price_data, caller.commodity) :
                                    price_data[r].timestamp = timestamp}
                  IN  (timestamp # 0 /\ timestamp \notin TimestampsBefore) =>
                         IF NotANumber(points[i].close)
                         THEN /\ stored = {}
                              /\ \A k \in DOMAIN caller.items :
                                    caller.items[k].timestamp # timestamp
                         ELSE /\ Cardinality(stored) = 1
                              /\ \A r \in stored :
                                    /\ price_data[r].close_price = to_decimal(points[i].close)
                                    /\ NotANumber(points[i].open) =>
                                          price_data[r].open_price = None
                                    /\ ~NotANumber(points[i].open) =>
                                          price_data[r].open_price = to_decimal(points[i].open)
            /\ \A r \in DOMAIN price_data :
                  /\ price_data[r].close_price \notin {None, "D0"}
                  /\ price_data[r].open_price # "D0"

\* one point without a usable close next to one with a close and a bad open
C20_Witness ==
    /\ TimeSeriesShaped
    /\ caller.before = <<>>
    /\ Len(caller.raw_data.entries) = 2
    /\ NotANumber(caller.raw_data.entries[1].close)
    /\ parse_date_string(caller.raw_data.entries[1].date) # 0
    /\ caller.raw_data.entries[2].close = "10.5"
    /\ caller.raw_data.entries[2].open = "n/a"
    /\ Len(price_data) = 1
    /\ price_data[1].close_price = "D10.5"
    /\ price_data[1].open_price = None

\* C19: a run for an Alpha Vantage commodity whose payload holds one price
\* point, which it stores, reports one record created and ends with its
\* ledger entry SUCCESS.
C19_OnePointSucceeds ==
    \A t \in Tasks :
        (Ended(t) /\ DataSourceName(task[t].commodity) = "Alpha Vantage"
            /\ task[t].num_fetched = 1 /\ task[t].rows_added = 1) =>
            /\ task[t].records_created = 1
            /\ task[t].exc = None
            /\ LogOf(t).status = "SUCCESS"


\* C21: a non-empty payload of unrecognised shape yields zero candidates
\* without raising: the run that received it writes no row, raises nothing and
\* ends with its ledger entry in a terminal status.
C21_UnrecognisedEndsTerminal ==
    \A t \in Tasks :
        (Ended(t) /\ task[t].candidates = "unrecognised") =>
            /\ task[t].exc = None
            /\ task[t].rows_added = 0
            /\ LogOf(t).status \in TerminalStatuses

\* a note that signals throttling: it mentions the call frequency or a premium
\* endpoint
SignalsThrottling(note) ==
    Truthy(note) /\ (MentionsCallFrequency(note) \/ MentionsPremiumEndpoint(note))

\* C22: a provider client never returns a body that carries the error
\* envelope: an Alpha Vantage body with 'Error Message', or a FRED body with
\* error_code / error_message, raises DataFetchError or RateLimitExceededError,
\* and an Alpha Vantage body whose 'Note' or 'Information' signals throttling
\* raises RateLimitExceededError.
C22_NoErrorEnvelopeReturned ==
    /\ client.pc = "returned" =>
          /\ client.returned.error = None
          /\ client.returned.error_code = 0
          /\ ~Truthy(client.returned.error_message)
          /\ ~SignalsThrottling(client.returned.note)
          /\ ~SignalsThrottling(client.returned.information)
    /\ (client.pc # "idle" /\ client.body.error # None) =>
          client.raised \in {"DataFetchError", "RateLimitExceededError"}
    /\ (client.pc # "idle"
           /\ (client.body.error_code # 0 \/ Truthy(client.body.error_message))) =>
          client.raised \in {"DataFetchError", "RateLimitExceededError"}
    /\ (client.pc # "idle" /\ client.body.error = None
           /\ (SignalsThrottling(client.body.note)
                 \/ SignalsThrottling(client.body.information))) =>
          client.raised = "RateLimitExceededError"

C24_OneClientPerProvider ==
    /\ \A p, q \in fetcher.clients : p.name = q.name => p = q
    /\ \A p \in fetcher.clients : p.name \in RegisteredProviders
    /\ \A a, b \in fetcher.served : Lower(a.source) = Lower(b.source) => a.id = b.id
    /\ fetcher.cause = "APIKeyMissingError" =>
          \A p \in fetcher.clients : p.name # Lower(fetcher.source)

\* "Alpha Vantage" and "alpha vantage" have both been served, and the last
\* call failed to construct the FRED client
C24_Witness ==
    /\ \E a, b \in fetcher.served :
          a.source = "Alpha Vantage" /\ b.source = "alpha vantage"
    /\ fetcher.source = "FRED"
    /\ fetcher.cause = "APIKeyMissingError"

\* C25: in a sequential batch by one UpdateService, the update of a commodity
\* writes only the ledger entry created for it: an entry is changed only by
\* the run that created it, so when a run fails before its entry is created,
\* the entries of earlier runs are left as they were.
C25_WritesOwnEntryOnly ==
    [][\A i \in DOMAIN market_update :
          market_update'[i] # market_update[i] => i = service.own]_vars

\* C26: two threads that run updates for different commodities through the
\* same service instance each write only the ledger entry they created
\* themselves: a step that changes an entry is a step of the thread that
\* created it, so no thread finalises another thread's entry in its place.
C26_ThreadsWriteOwnEntry ==
    [][(\A t, u \in Tasks :
            /\ service.calls[t].commodity # None
            /\ t # u => service.calls[t].commodity # service.calls[u].commodity)
        => \A i \in DOMAIN market_update :
              market_update'[i] # market_update[i] =>
                  \E t \in Tasks :
                      /\ service'.calls[t] # service.calls[t]
                      /\ service.calls[t].own = i]_vars

C28_TupleAgreesWithLedger ==
    \A t \in Tasks :
        Ended(t) =>
            /\ task[t].exc = None
            /\ (task[t].status_arg = "SUCCESS") <=> (LogOf(t).status = "SUCCESS")
            /\ task[t].records_created = LogOf(t).records_created

\* C29: in every state of a ledger entry, completed_at is set exactly when the
\* status is terminal, and when the status is RUNNING or terminal started_at
\* is set and, where completed_at is set, started_at <= completed_at.
C29_TimestampsMatchStatus ==
    \A i \in DOMAIN market_update :
        LET log == market_update[i]
        IN  /\ (log.completed_at # 0) <=> (log.status \in TerminalStatuses)
            /\ log.status \in TerminalStatuses \cup {"RUNNING"} =>
                  /\ log.started_at # 0
                  /\ log.completed_at # 0 => log.started_at <= log.completed_at

\* C30: constructing the update orchestration service succeeds and yields a
\* fetch orchestrator with an empty client cache: the constructor, which
\* passes an empty base URL, raises nothing (no ConfigurationError).
C30_ConstructionSucceeds ==
    built.class = "MarketUpdateOrchestrationService" =>
        /\ built.raised = None
        /\ \E o \in built.objects :
              o.class = "MarketUpdateOrchestrationService" /\ o.clients = {}
====
